---------------------------- MODULE Spec2Model ----------------------------
(***************************************************************************)
(* A model of the sprite game of 03-Games: the InputHandler that resolves  *)
(* direction keys with opposite-key cancellation (components.rs), and the  *)
(* per-frame systems Keyboard, Physics, Animator and the renderer          *)
(* (keyboard.rs, physics.rs, animator.rs, renderer.rs).                    *)
(*                                                                         *)
(* Spec        : the InputHandler driven by any sequence of press_key and  *)
(*               release_key calls; `history` records the calls made.      *)
(* SpecFrame   : the frame loop: a batch of key events, then Keyboard,     *)
(*               Physics, Animator and the renderer, frame after frame.    *)
(* SpecSystems : one pass of Keyboard, Physics, Animator and the renderer  *)
(*               over a world and a command drawn from bounded sets.       *)
(*                                                                         *)
(* Three other programs of the repository are modelled beside it: the      *)
(* Player of the single-struct game (03-another_simple_game), run on the   *)
(* events of SpecFrame; the Ball of 01-sdl2-bouncing-ball (SpecBall); and  *)
(* the AdvancedUserRepository of 02-queryable_traits_demo_extented under   *)
(* any sequence of insert, update and delete calls (SpecRepo).             *)
(***************************************************************************)
EXTENDS Integers, Sequences, FiniteSets

VARIABLES
    input_handler,      \* InputHandler {direction_stack, horizontal_balance, vertical_balance}
    history,            \* the press_key / release_key calls made since InputHandler::new()
    positions,          \* WriteStorage<Position>: entity -> <<x, y>>
    velocities,         \* WriteStorage<Velocity>: entity -> [speed, direction]
    sprites,            \* WriteStorage<Sprite>: entity -> [spritesheet, region]
    animations,         \* WriteStorage<MovementAnimation>: entity -> frames and current_frame
    keyboard_controlled,\* ReadStorage<KeyboardControlled>: the tagged entities
    movement_command,   \* the resource Option<MovementCommand>
    batch,              \* the key events folded into the handler in the current frame
    event,              \* the event poll_iter delivered last in the current frame
    polled,             \* key events delivered so far, over all frames
    draws,              \* the canvas.copy calls of the last render
    pc,                 \* the step of the frame that runs next
    frame,              \* frames completed
    player,             \* the Player of the single-struct game, run on the same events
    ball,               \* the Ball of the bouncing-ball program
    repo,               \* an AdvancedUserRepository
    inserted            \* the last call of the repository, if an insert: its user and returned id

storeVars == <<positions, velocities, sprites, animations, keyboard_controlled>>
worldVars == <<positions, velocities, sprites, animations, keyboard_controlled,
               movement_command, batch, event, polled, draws, pc, frame>>
repoVars == <<repo, inserted>>
ecsVars == <<input_handler, history, positions, velocities, sprites, animations,
             keyboard_controlled, movement_command, batch, event, polled, draws,
             pc, frame>>
vars == <<ecsVars, player, ball, repo, inserted>>

---------------------------------------------------------------------------
(* Bounds of the model.                                                    *)

\* press_key / release_key calls explored under Spec.
MaxEvents == 5

\* Frames run under SpecFrame.
MaxFrames == 3

\* Key events delivered under SpecFrame, over all frames.
MaxPolled == 3

\* insert calls explored under SpecRepo.
MaxInserts == 2

---------------------------------------------------------------------------
(* components.rs: Direction.                                               *)

Direction == {"Up", "Down", "Left", "Right"}

\* Option::None; Some(d) is written d.
None == "None"

\* A variant of to_offset with the y axis pointing up.
to_offset_y_up(d) ==
    CASE d = "Left"  -> <<-1, 0>>
      [] d = "Right" -> <<1, 0>>
      [] d = "Up"    -> <<0, 1>>
      [] d = "Down"  -> <<0, -1>>

to_offset(d) ==
    CASE d = "Left"  -> <<-1, 0>>
      [] d = "Right" -> <<1, 0>>
      [] d = "Up"    -> <<0, -1>>
      [] d = "Down"  -> <<0, 1>>

is_horizontal(d) == d \in {"Left", "Right"}

is_vertical(d) == d \in {"Up", "Down"}

---------------------------------------------------------------------------
(* components.rs: InputHandler.                                            *)

InputHandler_new ==
    [direction_stack |-> <<>>, horizontal_balance |-> 0, vertical_balance |-> 0]

\* VecDeque::retain(|&d| d != direction)
retain(s, direction) == SelectSeq(s, LAMBDA d : d # direction)

\* A variant of update_balance with the sign of the Left arm slipped.
update_balance_left_adds(h, direction, delta) ==
    CASE direction = "Left"  -> [h EXCEPT !.horizontal_balance = @ + delta]
      [] direction = "Right" -> [h EXCEPT !.horizontal_balance = @ + delta]
      [] direction = "Up"    -> [h EXCEPT !.vertical_balance = @ - delta]
      [] direction = "Down"  -> [h EXCEPT !.vertical_balance = @ + delta]

\* The balances are i32; the bounds of the model keep them within a few units
\* of zero, far from overflow.
update_balance(h, direction, delta) ==
    CASE direction = "Left"  -> [h EXCEPT !.horizontal_balance = @ - delta]
      [] direction = "Right" -> [h EXCEPT !.horizontal_balance = @ + delta]
      [] direction = "Up"    -> [h EXCEPT !.vertical_balance = @ - delta]
      [] direction = "Down"  -> [h EXCEPT !.vertical_balance = @ + delta]

\* A variant of press_key that does not retain() before push_front().
press_key_no_retain(h, direction) ==
    update_balance(
        [h EXCEPT !.direction_stack = <<direction>> \o @],
        direction, 1)

press_key(h, direction) ==
    update_balance(
        [h EXCEPT !.direction_stack = <<direction>> \o retain(@, direction)],
        direction, 1)

\* A variant of release_key that leaves the direction in the stack.
release_key_no_retain(h, direction) ==
    update_balance(h, direction, -1)

\* A variant of release_key that leaves the balances alone.
release_key_no_balance(h, direction) ==
    [h EXCEPT !.direction_stack = retain(@, direction)]

\* A variant of release_key that passes delta 1, as press_key does.
release_key_delta_one(h, direction) ==
    update_balance(
        [h EXCEPT !.direction_stack = retain(@, direction)],
        direction, 1)

release_key(h, direction) ==
    update_balance(
        [h EXCEPT !.direction_stack = retain(@, direction)],
        direction, -1)

\* A variant of is_direction_active without cancellation: every key counts.
is_direction_active_always(h, direction) ==
    is_horizontal(direction) \/ is_vertical(direction)

\* A variant of is_direction_active that reads the other axis's balance.
is_direction_active_other_axis(h, direction) ==
    IF is_horizontal(direction) THEN h.vertical_balance # 0
    ELSE IF is_vertical(direction) THEN h.horizontal_balance # 0
    ELSE FALSE

is_direction_active(h, direction) ==
    IF is_horizontal(direction) THEN h.horizontal_balance # 0
    ELSE IF is_vertical(direction) THEN h.vertical_balance # 0
    ELSE FALSE

\* direction_stack.iter().find(|d| is_direction_active(d)).copied()
RECURSIVE find_active(_, _)
find_active(h, s) ==
    IF s = <<>> THEN None
    ELSE IF is_direction_active(h, Head(s)) THEN Head(s)
    ELSE find_active(h, Tail(s))

\* A variant of get_effective_direction that scans from the back (oldest first).
RECURSIVE find_active_back(_, _)
find_active_back(h, s) ==
    IF s = <<>> THEN None
    ELSE IF is_direction_active(h, s[Len(s)]) THEN s[Len(s)]
    ELSE find_active_back(h, SubSeq(s, 1, Len(s) - 1))

get_effective_direction_oldest(h) == find_active_back(h, h.direction_stack)

get_effective_direction(h) == find_active(h, h.direction_stack)

---------------------------------------------------------------------------
(* keyboard.rs: the Keyboard system.                                       *)

PLAYER_MOVEMENT_SPEED == 20

\* Option<MovementCommand>: None, Some(Move(direction)), Some(Stop).
NoCommand == [kind |-> "None"]
Move(direction) == [kind |-> "Move", direction |-> direction]
Stop == [kind |-> "Stop"]

\* A variant of Keyboard_run whose Move arm sets the speed and not the direction.
Keyboard_run_speed_only(command, tagged, vel) ==
    IF command = NoCommand THEN vel
    ELSE [e \in DOMAIN vel |->
            IF e \in tagged
            THEN IF command.kind = "Move"
                 THEN [vel[e] EXCEPT !.speed = PLAYER_MOVEMENT_SPEED]
                 ELSE [vel[e] EXCEPT !.speed = 0]
            ELSE vel[e]]

\* A variant of Keyboard_run that joins over every Velocity, tagged or not.
Keyboard_run_untagged(command, tagged, vel) ==
    IF command = NoCommand THEN vel
    ELSE [e \in DOMAIN vel |->
            IF command.kind = "Move"
            THEN [speed |-> PLAYER_MOVEMENT_SPEED, direction |-> command.direction]
            ELSE [vel[e] EXCEPT !.speed = 0]]

\* A variant of Keyboard_run that gives a tagged entity without a Velocity one.
Keyboard_run_inserts(command, tagged, vel) ==
    IF command = NoCommand THEN vel
    ELSE [e \in DOMAIN vel \cup tagged |->
            IF e \in tagged
            THEN IF command.kind = "Move"
                 THEN [speed |-> PLAYER_MOVEMENT_SPEED, direction |-> command.direction]
                 ELSE IF e \in DOMAIN vel THEN [vel[e] EXCEPT !.speed = 0]
                 ELSE [speed |-> 0, direction |-> "Right"]
            ELSE vel[e]]

\* The velocities after Keyboard::run; the join is over the entities that have
\* both the KeyboardControlled tag and a Velocity.
Keyboard_run(command, tagged, vel) ==
    IF command = NoCommand THEN vel
    ELSE [e \in DOMAIN vel |->
            IF e \in tagged
            THEN IF command.kind = "Move"
                 THEN [speed |-> PLAYER_MOVEMENT_SPEED, direction |-> command.direction]
                 ELSE [vel[e] EXCEPT !.speed = 0]
            ELSE vel[e]]

---------------------------------------------------------------------------
(* physics.rs: the Physics system.                                         *)

\* Point::offset(dx, dy)
offset(p, dx, dy) == <<p[1] + dx, p[2] + dy>>

\* A variant of Physics_run that offsets by (dx, dy), not by (dx, dy) * speed.
Physics_run_unit_step(pos, vel) ==
    [e \in DOMAIN pos |->
        IF e \in DOMAIN vel /\ vel[e].speed > 0
        THEN LET d == to_offset(vel[e].direction)
             IN  offset(pos[e], d[1], d[2])
        ELSE pos[e]]

\* The positions after Physics::run; the join is over the entities that have
\* both a Position and a Velocity.
Physics_run(pos, vel) ==
    [e \in DOMAIN pos |->
        IF e \in DOMAIN vel /\ vel[e].speed > 0
        THEN LET d == to_offset(vel[e].direction)
             IN  offset(pos[e], d[1] * vel[e].speed, d[2] * vel[e].speed)
        ELSE pos[e]]

---------------------------------------------------------------------------
(* animator.rs: the Animator system.                                       *)

\* A variant of frames_of with the Left and Right arms exchanged.
frames_of_mirrored(animation, direction) ==
    CASE direction = "Left"  -> animation.right_frames
      [] direction = "Right" -> animation.left_frames
      [] direction = "Up"    -> animation.up_frames
      [] direction = "Down"  -> animation.down_frames

\* The frame list Animator::run selects for a direction.
frames_of(animation, direction) ==
    CASE direction = "Left"  -> animation.left_frames
      [] direction = "Right" -> animation.right_frames
      [] direction = "Up"    -> animation.up_frames
      [] direction = "Down"  -> animation.down_frames

\* The entities Animator::run joins over.
Animator_join(anim, spr, vel) == DOMAIN anim \cap DOMAIN spr \cap DOMAIN vel

\* A variant of Animator_frame that advances idle entities too.
Animator_frame_no_idle(animation, velocity) ==
    (animation.current_frame + 1) % Len(frames_of(animation, velocity.direction))

\* current_frame after Animator::run, for an entity of the join (0-based, as in
\* the code; the lists of the model are 1-based).
Animator_frame(animation, velocity) ==
    IF velocity.speed = 0 THEN animation.current_frame
    ELSE (animation.current_frame + 1) % Len(frames_of(animation, velocity.direction))

\* Animator::run panics on `% frames.len()` when the list it selected for a
\* moving entity of the join is empty.
Animator_panics(anim, spr, vel) ==
    \E e \in Animator_join(anim, spr, vel) :
        /\ vel[e].speed # 0
        /\ Len(frames_of(anim[e], vel[e].direction)) = 0

\* A variant of Animator_animations that advances by rotating the selected list.
Animator_animations_rotating(anim, spr, vel) ==
    LET rot(l) == IF Len(l) = 0 THEN l ELSE Tail(l) \o <<Head(l)>>
        turn(a, d) ==
            [current_frame |-> a.current_frame,
             up_frames    |-> IF d = "Up" THEN rot(a.up_frames) ELSE a.up_frames,
             down_frames  |-> IF d = "Down" THEN rot(a.down_frames) ELSE a.down_frames,
             left_frames  |-> IF d = "Left" THEN rot(a.left_frames) ELSE a.left_frames,
             right_frames |-> IF d = "Right" THEN rot(a.right_frames) ELSE a.right_frames]
    IN  [e \in DOMAIN anim |->
            IF e \in Animator_join(anim, spr, vel) /\ vel[e].speed # 0
            THEN turn(anim[e], vel[e].direction)
            ELSE anim[e]]

\* The animations after Animator::run.
Animator_animations(anim, spr, vel) ==
    [e \in DOMAIN anim |->
        IF e \in Animator_join(anim, spr, vel)
        THEN [anim[e] EXCEPT !.current_frame = Animator_frame(anim[e], vel[e])]
        ELSE anim[e]]

\* A variant of Animator_sprites that clones the frame before it advances.
Animator_sprites_stale(anim, spr, vel) ==
    [e \in DOMAIN spr |->
        IF e \in Animator_join(anim, spr, vel) /\ vel[e].speed # 0
        THEN LET frames == frames_of(anim[e], vel[e].direction)
             IN  frames[(anim[e].current_frame % Len(frames)) + 1]
        ELSE spr[e]]

\* The sprites after Animator::run: frames[current_frame].clone() while moving.
Animator_sprites(anim, spr, vel) ==
    [e \in DOMAIN spr |->
        IF e \in Animator_join(anim, spr, vel) /\ vel[e].speed # 0
        THEN frames_of(anim[e], vel[e].direction)[Animator_frame(anim[e], vel[e]) + 1]
        ELSE spr[e]]

\* The stores Physics and Animator work on, as one record.
World(pos, vel, spr, anim) ==
    [positions |-> pos, velocities |-> vel, sprites |-> spr, animations |-> anim]

\* A variant of Physics_step that takes the speed of an entity once it moved.
Physics_step_resets_speed(w) ==
    [w EXCEPT !.positions = Physics_run(w.positions, w.velocities),
              !.velocities = [e \in DOMAIN w.velocities |->
                                IF e \in DOMAIN w.positions
                                THEN [w.velocities[e] EXCEPT !.speed = 0]
                                ELSE w.velocities[e]]]

\* Physics::run on the stores of a world: it writes the positions.
Physics_step(w) ==
    [w EXCEPT !.positions = Physics_run(w.positions, w.velocities)]

\* Animator::run on the stores of a world: it writes the animations and the
\* sprites.
Animator_step(w) ==
    [w EXCEPT !.animations = Animator_animations(w.animations, w.sprites, w.velocities),
              !.sprites = Animator_sprites(w.animations, w.sprites, w.velocities)]

---------------------------------------------------------------------------
(* renderer.rs: render.                                                    *)

\* canvas.output_size(): the window of the game.
WINDOW_WIDTH == 800
WINDOW_HEIGHT == 600

\* Rect::from_center(center, width, height)
from_center(center, width, height) ==
    [x |-> center[1] - (width \div 2), y |-> center[2] - (height \div 2),
     w |-> width, h |-> height]

\* A variant of draw_of that does not move the origin to the window's centre.
draw_of_window_origin(p, sprite) ==
    [texture |-> sprite.spritesheet,
     src |-> sprite.region,
     dst |-> from_center(p, sprite.region.w, sprite.region.h)]

\* The canvas.copy call for one entity with a Position and a Sprite.
draw_of(p, sprite) ==
    LET screen_position == <<p[1] + (WINDOW_WIDTH \div 2), p[2] + (WINDOW_HEIGHT \div 2)>>
    IN  [texture |-> sprite.spritesheet,
         src |-> sprite.region,
         dst |-> from_center(screen_position, sprite.region.w, sprite.region.h)]

\* The entities of a set, in the order the join visits them (ascending id).
RECURSIVE in_order(_)
in_order(S) ==
    IF S = {} THEN <<>>
    ELSE LET e == CHOOSE x \in S : \A y \in S : x <= y
         IN  <<e>> \o in_order(S \ {e})

\* A variant of render that leaves the loop after the first entity.
render_first_only(pos, spr) ==
    LET es == in_order(DOMAIN pos \cap DOMAIN spr)
    IN  [i \in 1..(IF Len(es) > 0 THEN 1 ELSE 0) |-> draw_of(pos[es[i]], spr[es[i]])]

\* The canvas.copy calls of one render, in order.
render(pos, spr) ==
    LET es == in_order(DOMAIN pos \cap DOMAIN spr)
    IN  [i \in 1..Len(es) |-> draw_of(pos[es[i]], spr[es[i]])]

\* textures.len(): the spritesheets loaded at startup, indexed from 0.
NumTextures == 2

\* The copies of a render that precede the first entity whose spritesheet is
\* not an index of textures: &textures[sprite.spritesheet] panics there.
copies_before_panic(pos, spr) ==
    LET es == in_order(DOMAIN pos \cap DOMAIN spr)
        bad == {i \in 1..Len(es) : spr[es[i]].spritesheet >= NumTextures}
    IN  IF bad = {} THEN Len(es)
        ELSE (CHOOSE i \in bad : \A j \in bad : i <= j) - 1

\* One call of render: k = 0 when every canvas.copy returns Ok, else the k-th
\* copy is the first that returns Err, and `?` returns it from render. The
\* draws are the copies that succeeded.
render_result(pos, spr, k) ==
    LET n == copies_before_panic(pos, spr)
        all == render(pos, spr)
    IN  IF k > 0 THEN [draws |-> SubSeq(all, 1, k - 1), result |-> "Err"]
        ELSE IF n < Len(all) THEN [draws |-> SubSeq(all, 1, n), result |-> "panic"]
        ELSE [draws |-> all, result |-> "Ok"]

---------------------------------------------------------------------------
(* Setup and the frame loop.                                               *)

\* The entities created at startup: the player and a static sprite.
PlayerEntity == 1
StaticEntity == 2

\* The sprite of the static entity: a 32 x 32 cell of spritesheet 1.
StaticSprite == [spritesheet |-> 1, region |-> [x |-> 0, y |-> 0, w |-> 32, h |-> 32]]

\* The frame-list lengths per direction the game may be built with.
FrameBuilds ==
    { [d \in Direction |-> 2],
      [d \in Direction |->
          CASE d = "Up" -> 1 [] d = "Down" -> 4 [] d = "Left" -> 2 [] d = "Right" -> 3] }

\* The frame-list lengths entity creation may be asked for: those above, and
\* one with an empty list.
RequestedBuilds ==
    FrameBuilds \cup
    { [d \in Direction |->
          CASE d = "Up" -> 0 [] d = "Down" -> 4 [] d = "Left" -> 2 [] d = "Right" -> 3] }

\* A variant of creation_accepts that rejects nothing.
creation_accepts_any(build) == TRUE

\* Entity creation rejects an animation with an empty frame list.
creation_accepts(build) == \A d \in Direction : build[d] > 0

\* The row of the spritesheet that holds the frames of a direction.
direction_spritesheet_row(direction) ==
    CASE direction = "Up" -> 3
      [] direction = "Down" -> 0
      [] direction = "Left" -> 1
      [] direction = "Right" -> 2

\* The n frames of a direction: 26 x 36 cells of spritesheet 0, left to right.
character_animation_frames(direction, n) ==
    [i \in 1..n |->
        [spritesheet |-> 0,
         region |-> [x |-> 26 * (i - 1), y |-> 36 * direction_spritesheet_row(direction),
                     w |-> 26, h |-> 36]]]

player_animation(build) ==
    [current_frame |-> 0,
     up_frames    |-> character_animation_frames("Up", build["Up"]),
     down_frames  |-> character_animation_frames("Down", build["Down"]),
     left_frames  |-> character_animation_frames("Left", build["Left"]),
     right_frames |-> character_animation_frames("Right", build["Right"])]

\* The key events a frame's batch is made of.
KeyEvent == [key : Direction, pressed : BOOLEAN]

\* A key of the keyboard that is not a direction key.
OtherKey == "Other"

\* Event::KeyDown / Event::KeyUp with Some(keycode), as poll_iter delivers them.
SdlEvent == [key : Direction \cup {OtherKey}, pressed : BOOLEAN, repeat : BOOLEAN]

\* No event delivered yet in this frame.
NoEvent == [key |-> "None", pressed |-> FALSE, repeat |-> FALSE]

\* A variant of handle_key_event that takes any other key for Left.
handle_key_event_default_left(h, ev) ==
    LET direction == IF ev.key \in Direction THEN ev.key ELSE "Left"
    IN  IF ev.pressed THEN press_key(h, direction) ELSE release_key(h, direction)

\* A variant of handle_key_event that takes every event for a press.
handle_key_event_press_only(h, ev) ==
    IF ev.key \notin Direction THEN h ELSE press_key(h, ev.key)

\* Game::handle_key_event: any key that is not a direction key returns early.
handle_key_event(h, ev) ==
    IF ev.key \notin Direction THEN h
    ELSE IF ev.pressed THEN press_key(h, ev.key) ELSE release_key(h, ev.key)

\* A variant of poll_event that hands repeats to the game as well.
poll_event_with_repeats(h, ev) ==
    handle_key_event(h, ev)

\* The match of the event loop on a key event: only repeat: false is handled.
poll_event(h, ev) ==
    IF ev.repeat THEN h ELSE handle_key_event(h, ev)

\* The command of a frame: Move(d) when the effective direction is d, Stop when
\* there is none and a key transition occurred in the frame, else no command.
---------------------------------------------------------------------------
(* 03-another_simple_game: the Player of the single-struct game.  Its      *)
(* sprite and current_frame play no part in its movement and are left out. *)

Player_new(start_position) ==
    [position |-> start_position, speed |-> 0, direction |-> "Right"]

Player_update(p) ==
    IF p.speed > 0
    THEN LET o == to_offset(p.direction)
         IN  [p EXCEPT !.position = offset(p.position, o[1] * p.speed, o[2] * p.speed)]
    ELSE p

\* A variant of set_movement that leaves the speed when no direction is
\* effective.
Player_set_movement_keeps_speed(p, direction) ==
    IF direction # None
    THEN [p EXCEPT !.direction = direction, !.speed = PLAYER_MOVEMENT_SPEED]
    ELSE p

Player_set_movement(p, direction) ==
    IF direction # None
    THEN [p EXCEPT !.direction = direction, !.speed = PLAYER_MOVEMENT_SPEED]
    ELSE [p EXCEPT !.speed = 0]

\* Game::new: the player starts at the origin.
Game_new == Player_new(<<0, 0>>)

\* Game::update, once per iteration of the loop, after the events.
Game_update(p, h) ==
    Player_update(Player_set_movement(p, get_effective_direction(h)))

---------------------------------------------------------------------------
(* 01-sdl2-bouncing-ball: Ball.                                            *)

BALL_WINDOW_WIDTH == 800
BALL_WINDOW_HEIGHT == 600
BALL_SIZE == 20
BALL_SPEED == 5

max(a, b) == IF a >= b THEN a ELSE b
min(a, b) == IF a <= b THEN a ELSE b

Ball_new ==
    [x |-> BALL_WINDOW_WIDTH \div 2, y |-> BALL_WINDOW_HEIGHT \div 2,
     vel_x |-> BALL_SPEED, vel_y |-> BALL_SPEED]

\* A variant of Ball::update that bounces only once the ball is past a wall.
Ball_update_past_the_wall(b) ==
    LET x == b.x + b.vel_x
        y == b.y + b.vel_y
    IN  [x |-> min(max(x, 0), BALL_WINDOW_WIDTH - BALL_SIZE),
         y |-> min(max(y, 0), BALL_WINDOW_HEIGHT - BALL_SIZE),
         vel_x |-> IF x < 0 \/ x > BALL_WINDOW_WIDTH - BALL_SIZE
                   THEN -b.vel_x ELSE b.vel_x,
         vel_y |-> IF y < 0 \/ y > BALL_WINDOW_HEIGHT - BALL_SIZE
                   THEN -b.vel_y ELSE b.vel_y]

Ball_update(b) ==
    LET x == b.x + b.vel_x
        y == b.y + b.vel_y
    IN  [x |-> min(max(x, 0), BALL_WINDOW_WIDTH - BALL_SIZE),
         y |-> min(max(y, 0), BALL_WINDOW_HEIGHT - BALL_SIZE),
         vel_x |-> IF x <= 0 \/ x >= BALL_WINDOW_WIDTH - BALL_SIZE
                   THEN -b.vel_x ELSE b.vel_x,
         vel_y |-> IF y <= 0 \/ y >= BALL_WINDOW_HEIGHT - BALL_SIZE
                   THEN -b.vel_y ELSE b.vel_y]

\* One iteration of the loop of the bouncing ball: ball.update().
BallUpdate ==
    /\ ball' = Ball_update(ball)
    /\ UNCHANGED <<ecsVars, player, repo, inserted>>

---------------------------------------------------------------------------
(* 02-queryable_traits_demo_extented: AdvancedUserRepository.              *)

User(name, age) == [name |-> name, age |-> age]

\* The result None of find_by_id.
NoUser == User("None", 0)

\* The users a client inserts, or leaves in place of another with update.
NewUsers == {User("David", 28), User("David", 29), User("Eve", 22)}

AdvancedUserRepository_new ==
    [users |-> <<User("Alice", 30), User("Bob", 25), User("Charlie", 35)>>,
     next_id |-> 3]

\* The ids a client passes: those of the stored users and some beyond.
UserIds == 0..(AdvancedUserRepository_new.next_id + MaxInserts)

\* users.remove(i), for a 0-based index i.
remove(users, i) ==
    [k \in 1..(Len(users) - 1) |-> IF k <= i THEN users[k] ELSE users[k + 1]]

\* insert: the id returned and the repository left.
insert(r, user) ==
    [id |-> r.next_id,
     repo |-> [users |-> Append(r.users, user), next_id |-> r.next_id + 1]]

\* update, with an updater that leaves `user` in the place of the stored one.
update(r, id, user) ==
    IF id < Len(r.users)
    THEN [r EXCEPT !.users[id + 1] = user]
    ELSE r

delete(r, id) ==
    IF id < Len(r.users)
    THEN [r EXCEPT !.users = remove(r.users, id)]
    ELSE r

find_by_id(r, id) ==
    IF id < Len(r.users) THEN r.users[id + 1] ELSE NoUser

\* No insert was the last call.
NoInsert == [id |-> -1, user |-> NoUser]

Insert(user) ==
    /\ repo.next_id < AdvancedUserRepository_new.next_id + MaxInserts
    /\ repo' = insert(repo, user).repo
    /\ inserted' = [id |-> insert(repo, user).id, user |-> user]
    /\ UNCHANGED <<ecsVars, player, ball>>

Update(id, user) ==
    /\ repo' = update(repo, id, user)
    /\ inserted' = NoInsert
    /\ UNCHANGED <<ecsVars, player, ball>>

Delete(id) ==
    /\ repo' = delete(repo, id)
    /\ inserted' = NoInsert
    /\ UNCHANGED <<ecsVars, player, ball>>

\* The other programs, as they start.
InitPrograms ==
    /\ player = Game_new
    /\ ball = Ball_new
    /\ repo = AdvancedUserRepository_new
    /\ inserted = NoInsert

command_of(h, events) ==
    LET d == get_effective_direction(h)
    IN  IF d # None THEN Move(d)
        ELSE IF Len(events) > 0 THEN Stop
        ELSE NoCommand

InitFrame ==
    /\ input_handler = InputHandler_new
    /\ history = <<>>
    /\ \E build \in RequestedBuilds :
        /\ creation_accepts(build)
        /\ animations = [e \in {PlayerEntity} |-> player_animation(build)]
        /\ sprites = [e \in {PlayerEntity, StaticEntity} |->
                        IF e = PlayerEntity
                        THEN player_animation(build).right_frames[1]
                        ELSE StaticSprite]
    /\ positions = [e \in {PlayerEntity, StaticEntity} |->
                        IF e = PlayerEntity THEN <<0, 0>> ELSE <<100, -50>>]
    /\ velocities = [e \in {PlayerEntity} |-> [speed |-> 0, direction |-> "Right"]]
    /\ keyboard_controlled = {PlayerEntity}
    /\ movement_command = NoCommand
    /\ batch = <<>>
    /\ event = NoEvent
    /\ polled = 0
    /\ draws = <<>>
    /\ pc = "events"
    /\ frame = 0
    /\ InitPrograms

\* One key event of the frame's batch is folded into the handler.
PollEvent(ev) ==
    /\ pc = "events"
    /\ frame < MaxFrames
    /\ polled < MaxPolled
    /\ input_handler' = poll_event(input_handler, ev)
    /\ batch' = IF ev.repeat \/ ev.key \notin Direction THEN batch
                ELSE Append(batch, [key |-> ev.key, pressed |-> ev.pressed])
    /\ event' = ev
    /\ polled' = polled + 1
    /\ UNCHANGED <<history, storeVars, movement_command, draws, pc, frame>>

\* The batch is over: the frame's command is stored for the systems.
Resolve ==
    /\ pc = "events"
    /\ frame < MaxFrames
    /\ movement_command' = command_of(input_handler, batch)
    /\ event' = NoEvent
    /\ pc' = "keyboard"
    /\ UNCHANGED <<input_handler, history, storeVars, batch, polled, draws, frame>>

\* A variant of KeyboardStep that also moves the entities it gave a velocity.
KeyboardStep_moves ==
    /\ pc = "keyboard"
    /\ velocities' = Keyboard_run(movement_command, keyboard_controlled, velocities)
    /\ positions' = Physics_run(positions, velocities')
    /\ pc' = "physics"
    /\ UNCHANGED <<input_handler, history, sprites, animations,
                   keyboard_controlled, movement_command, batch, event, polled,
                   draws, frame>>

KeyboardStep ==
    /\ pc = "keyboard"
    /\ velocities' = Keyboard_run(movement_command, keyboard_controlled, velocities)
    /\ pc' = "physics"
    /\ UNCHANGED <<input_handler, history, positions, sprites, animations,
                   keyboard_controlled, movement_command, batch, event, polled,
                   draws, frame>>

\* A variant of PhysicsStep that takes the speed of an entity once it moved.
PhysicsStep_resets_speed ==
    /\ pc = "physics"
    /\ positions' = Physics_run(positions, velocities)
    /\ velocities' = [e \in DOMAIN velocities |->
                        IF e \in DOMAIN positions
                        THEN [velocities[e] EXCEPT !.speed = 0]
                        ELSE velocities[e]]
    /\ pc' = "animator"
    /\ UNCHANGED <<input_handler, history, sprites, animations,
                   keyboard_controlled, movement_command, batch, event, polled,
                   draws, frame>>

PhysicsStep ==
    /\ pc = "physics"
    /\ positions' = Physics_run(positions, velocities)
    /\ pc' = "animator"
    /\ UNCHANGED <<input_handler, history, velocities, sprites, animations,
                   keyboard_controlled, movement_command, batch, event, polled,
                   draws, frame>>

AnimatorStep ==
    /\ pc = "animator"
    /\ IF Animator_panics(animations, sprites, velocities)
       THEN /\ pc' = "panicked"
            /\ UNCHANGED <<animations, sprites>>
       ELSE /\ animations' = Animator_animations(animations, sprites, velocities)
            /\ sprites' = Animator_sprites(animations, sprites, velocities)
            /\ pc' = "render"
    /\ UNCHANGED <<input_handler, history, positions, velocities,
                   keyboard_controlled, movement_command, batch, event, polled,
                   draws, frame>>

RenderStep ==
    /\ pc = "render"
    /\ \E k \in 0..copies_before_panic(positions, sprites) :
        LET r == render_result(positions, sprites, k)
        IN  /\ draws' = r.draws
            /\ pc' = CASE r.result = "Ok" -> "sleep"
                       [] r.result = "Err" -> "render_failed"
                       [] r.result = "panic" -> "panicked"
    /\ UNCHANGED <<input_handler, history, storeVars, movement_command, batch,
                   event, polled, frame>>

\* The end of the loop body: the draws were presented, and the next iteration
\* starts with an empty batch.
NextFrame ==
    /\ pc \in {"sleep", "render_failed"}
    /\ batch' = <<>>
    /\ draws' = <<>>
    /\ frame' = frame + 1
    /\ pc' = "events"
    /\ UNCHANGED <<input_handler, history, storeVars, movement_command, event,
                   polled>>

---------------------------------------------------------------------------
(* One pass of the systems over a world drawn from bounded sets.           *)

Components == {"Position", "Velocity", "Sprite", "MovementAnimation", "KeyboardControlled"}

Points == {<<0, 0>>, <<10, 10>>}

\* Velocity.speed is an i32: a negative value, 0 and two positive ones.
Speeds == {-5, 0, 5, PLAYER_MOVEMENT_SPEED}

\* The last value names a spritesheet that was not loaded.
SpriteValues ==
    {StaticSprite, character_animation_frames("Right", 1)[1],
     [spritesheet |-> NumTextures, region |-> [x |-> 0, y |-> 0, w |-> 32, h |-> 32]]}

\* current_frame ranges over the indices of the longest list of a build.
AnimationValues ==
    {[player_animation(build) EXCEPT !.current_frame = c] :
        build \in FrameBuilds, c \in 0..3}

Commands == {NoCommand, Stop} \cup {Move(d) : d \in Direction}

\* An entity as built: the components it has, and the value of each.
EntityValues ==
    [comps : SUBSET Components,
     Position : Points,
     Velocity : [speed : Speeds, direction : Direction],
     Sprite : SpriteValues,
     MovementAnimation : AnimationValues]

\* The second entity of a world: a static sprite, or an animated mover without
\* the KeyboardControlled tag.
SecondEntityValues ==
    { [comps |-> {"Position", "Sprite"},
       Position |-> <<100, -50>>,
       Velocity |-> [speed |-> 0, direction |-> "Right"],
       Sprite |-> StaticSprite,
       MovementAnimation |-> player_animation([d \in Direction |-> 2])],
      [comps |-> {"Position", "Velocity", "Sprite", "MovementAnimation"},
       Position |-> <<100, -50>>,
       Velocity |-> [speed |-> 5, direction |-> "Down"],
       Sprite |-> StaticSprite,
       MovementAnimation |->
           [player_animation(CHOOSE b \in FrameBuilds : b["Down"] = 4)
               EXCEPT !.current_frame = 3]] }

\* The store of component c of the entities ents.
store_of(ents, c) ==
    [e \in {x \in DOMAIN ents : c \in ents[x].comps} |-> ents[e][c]]

InitSystems ==
    /\ input_handler = InputHandler_new
    /\ history = <<>>
    /\ \E first \in EntityValues, second \in SecondEntityValues :
        LET ents == <<first, second>>
        IN  /\ positions = store_of(ents, "Position")
            /\ velocities = store_of(ents, "Velocity")
            /\ sprites = store_of(ents, "Sprite")
            /\ animations = store_of(ents, "MovementAnimation")
            /\ keyboard_controlled =
                    {x \in DOMAIN ents : "KeyboardControlled" \in ents[x].comps}
    /\ movement_command \in Commands
    /\ batch = <<>>
    /\ event = NoEvent
    /\ polled = 0
    /\ draws = <<>>
    /\ pc = "keyboard"
    /\ frame = 0
    /\ InitPrograms

NextOfSystems ==
    \/ KeyboardStep /\ UNCHANGED <<player, ball, repoVars>>
    \/ PhysicsStep /\ UNCHANGED <<player, ball, repoVars>>
    \/ AnimatorStep /\ UNCHANGED <<player, ball, repoVars>>
    \/ RenderStep /\ UNCHANGED <<player, ball, repoVars>>

SpecSystems == InitSystems /\ [][NextOfSystems]_vars

---------------------------------------------------------------------------
(* The calls a client of InputHandler makes.                               *)

Press(d) == [op |-> "press", dir |-> d]
Release(d) == [op |-> "release", dir |-> d]

PressKey(d) ==
    /\ Len(history) < MaxEvents
    /\ input_handler' = press_key(input_handler, d)
    /\ history' = Append(history, Press(d))

ReleaseKey(d) ==
    /\ Len(history) < MaxEvents
    /\ input_handler' = release_key(input_handler, d)
    /\ history' = Append(history, Release(d))

---------------------------------------------------------------------------
Init ==
    /\ input_handler = InputHandler_new
    /\ history = <<>>
    /\ positions = <<>>
    /\ velocities = <<>>
    /\ sprites = <<>>
    /\ animations = <<>>
    /\ keyboard_controlled = {}
    /\ movement_command = NoCommand
    /\ batch = <<>>
    /\ event = NoEvent
    /\ polled = 0
    /\ draws = <<>>
    /\ pc = "events"
    /\ frame = 0
    /\ InitPrograms

Next ==
    \/ \E d \in Direction :
        PressKey(d) /\ UNCHANGED <<worldVars, player, ball, repoVars>>
    \/ \E d \in Direction :
        ReleaseKey(d) /\ UNCHANGED <<worldVars, player, ball, repoVars>>

Spec == Init /\ [][Next]_vars

\* The single-struct game runs on the same events: its Game::update comes
\* when the events of the iteration are handled, as the command does here.
NextOfFrame ==
    \/ \E ev \in SdlEvent : PollEvent(ev) /\ UNCHANGED <<player, ball, repoVars>>
    \/ /\ Resolve
       /\ player' = Game_update(player, input_handler)
       /\ UNCHANGED <<ball, repoVars>>
    \/ KeyboardStep /\ UNCHANGED <<player, ball, repoVars>>
    \/ PhysicsStep /\ UNCHANGED <<player, ball, repoVars>>
    \/ AnimatorStep /\ UNCHANGED <<player, ball, repoVars>>
    \/ RenderStep /\ UNCHANGED <<player, ball, repoVars>>
    \/ NextFrame /\ UNCHANGED <<player, ball, repoVars>>

SpecFrame == InitFrame /\ [][NextOfFrame]_vars

NextOfBall == BallUpdate

SpecBall == Init /\ [][NextOfBall]_vars

NextOfRepo ==
    \/ \E user \in NewUsers : Insert(user)
    \/ \E id \in UserIds, user \in NewUsers : Update(id, user)
    \/ \E id \in UserIds : Delete(id)

SpecRepo == Init /\ [][NextOfRepo]_vars

---------------------------------------------------------------------------
(* Vocabulary of the properties below: what `history` says was done.       *)

Range(s) == {s[i] : i \in 1..Len(s)}

Opposite(d) ==
    CASE d = "Left"  -> "Right"
      [] d = "Right" -> "Left"
      [] d = "Up"    -> "Down"
      [] d = "Down"  -> "Up"

\* The two axes, each as <<negative direction, positive direction>>.
Axes == {<<"Left", "Right">>, <<"Up", "Down">>}

Count(ev) == Cardinality({i \in 1..Len(history) : history[i] = ev})

\* Presses minus releases of d so far.
Net(d) == Count(Press(d)) - Count(Release(d))

\* The place in history of the last press of d; 0 when d was never pressed.
LastPress(d) ==
    LET at == {i \in 1..Len(history) : history[i] = Press(d)}
    IN  IF at = {} THEN 0 ELSE CHOOSE i \in at : \A j \in at : j <= i

\* d was pressed before the i-th call and not released since.
HeldBefore(h, i, d) ==
    \E j \in 1..(i - 1) :
        /\ h[j] = Press(d)
        /\ \A k \in (j + 1)..(i - 1) : h[k] # Release(d)

\* A direction is pressed only when not held and released only when held.
WellFormed(h) ==
    \A i \in 1..Len(h) :
        IF h[i].op = "press" THEN ~HeldBefore(h, i, h[i].dir)
        ELSE HeldBefore(h, i, h[i].dir)

OnlyAxis(axis) == \A i \in 1..Len(history) : history[i].dir \in Range(axis)

\* The balance of the axis of d, read off the handler's fields.
AxisBalance(h, d) ==
    IF d \in {"Left", "Right"} THEN h.horizontal_balance ELSE h.vertical_balance

\* The first entry of s that satisfies P, None when there is none.
FirstSuch(s, P(_)) ==
    LET at == {i \in 1..Len(s) : P(s[i])}
    IN  IF at = {} THEN None ELSE s[CHOOSE i \in at : \A j \in at : i <= j]

Effective == get_effective_direction(input_handler)

---------------------------------------------------------------------------
(* C1 (as stated): after press(Left), press(Right) from the initial state, *)
(* both held, get_effective_direction() returns Some(Right).               *)
C1_LeftRightGivesRight ==
    history = <<Press("Left"), Press("Right")>> => Effective = "Right"

(* C1 (amended): after press(Left), press(Right) from the initial state,   *)
(* both held, the horizontal axis is cancelled and                         *)
(* get_effective_direction() returns None.                                 *)
C1_LeftRightGivesNone ==
    history = <<Press("Left"), Press("Right")>> => Effective = None

C1_Witness ==
    /\ history = <<Press("Left"), Press("Right")>>
    /\ input_handler.direction_stack = <<"Right", "Left">>
    /\ input_handler.horizontal_balance = 0

(* C2: after press(Left), press(Right), release(Right), Left still held,   *)
(* the effective direction is Left; and whenever the front of the stack is *)
(* released, the stack loses exactly that entry and the effective          *)
(* direction becomes the most recent remaining entry whose axis balance is *)
(* non-zero, which under well-formed event streams is the most recent      *)
(* remaining held key whose opposite is not held.                          *)
C2_ReleaseReverts ==
    [][ /\ history' = <<Press("Left"), Press("Right"), Release("Right")>>
            => Effective' = "Left"
        /\ \A d \in Direction :
            ( /\ history' = Append(history, Release(d))
              /\ input_handler.direction_stack # <<>>
              /\ Head(input_handler.direction_stack) = d )
            => LET rest == Tail(input_handler.direction_stack)
               IN  /\ input_handler'.direction_stack = rest
                   /\ Effective' =
                        FirstSuch(rest, LAMBDA e : AxisBalance(input_handler', e) # 0)
                   /\ WellFormed(history')
                        => Effective' =
                             FirstSuch(rest, LAMBDA e : Opposite(e) \notin Range(rest))
      ]_vars

C2_Witness ==
    /\ history = <<Press("Left"), Press("Right"), Release("Right")>>
    /\ input_handler.direction_stack = <<"Left">>
    /\ Effective = "Left"

(* C3 (as stated): for a history of events on one axis only, the effective *)
(* direction is None iff presses minus releases is zero for each of the    *)
(* two directions of the axis. Stated here for the well-formed histories   *)
(* among them, where every release matches a press.                        *)
C3_NoneIffBothNetZero ==
    \A axis \in Axes :
        (OnlyAxis(axis) /\ WellFormed(history)) =>
            (Effective = None <=> (Net(axis[1]) = 0 /\ Net(axis[2]) = 0))

(* C3 (amended): for a history of events on one axis only, the effective   *)
(* direction is None iff the two directions' net counts (presses minus     *)
(* releases) are equal -- both zero, or both held and cancelling -- or the *)
(* stack is empty.                                                         *)
C3_NoneIffNetEqualOrEmpty ==
    \A axis \in Axes :
        OnlyAxis(axis) =>
            (Effective = None <=>
                \/ Net(axis[1]) = Net(axis[2])
                \/ input_handler.direction_stack = <<>>)

C3_Witness ==
    /\ OnlyAxis(<<"Up", "Down">>)
    /\ Len(history) = 4
    /\ Net("Up") = 1
    /\ Net("Down") = 1
    /\ Effective = None

(* C4: a press of a direction that is already in direction_stack changes   *)
(* neither horizontal_balance nor vertical_balance.                        *)
C4_RepeatedPressKeepsBalance ==
    [][ \A d \in Direction :
            ( /\ history' = Append(history, Press(d))
              /\ d \in Range(input_handler.direction_stack) )
            => /\ input_handler'.horizontal_balance = input_handler.horizontal_balance
               /\ input_handler'.vertical_balance = input_handler.vertical_balance
      ]_vars

(* C5: a release of a direction that is not in direction_stack changes     *)
(* nothing: the stack and both balances stay as they were.                 *)
C5_UnheldReleaseIsNoOp ==
    [][ \A d \in Direction :
            ( /\ history' = Append(history, Release(d))
              /\ d \notin Range(input_handler.direction_stack) )
            => input_handler' = input_handler
      ]_vars

(* C6: in every reachable state direction_stack holds each direction at    *)
(* most once, every entry has been pressed, and the entries are in order   *)
(* of their last press, the most recently pressed at the front.            *)
C6_StackDistinctByRecency ==
    LET s == input_handler.direction_stack
    IN  /\ \A i, j \in 1..Len(s) : i # j => s[i] # s[j]
        /\ \A i \in 1..Len(s) : LastPress(s[i]) > 0
        /\ \A i, j \in 1..Len(s) : i < j => LastPress(s[i]) > LastPress(s[j])

C6_Witness ==
    /\ Len(input_handler.direction_stack) = 3
    /\ Count(Press(Head(input_handler.direction_stack))) = 2

(* C7: get_effective_direction() is None exactly when every entry of the   *)
(* stack (if any) has a zero axis balance; otherwise it is an entry of the *)
(* stack with a non-zero axis balance, before which every entry has a zero *)
(* axis balance.                                                           *)
C7_FirstActiveEntry ==
    LET s == input_handler.direction_stack
    IN  /\ Effective = None
            <=> \A i \in 1..Len(s) : AxisBalance(input_handler, s[i]) = 0
        /\ Effective # None
            => \E i \in 1..Len(s) :
                /\ s[i] = Effective
                /\ AxisBalance(input_handler, s[i]) # 0
                /\ \A j \in 1..(i - 1) : AxisBalance(input_handler, s[j]) = 0

C7_Witness ==
    /\ Len(input_handler.direction_stack) = 3
    /\ input_handler.vertical_balance = 0
    /\ is_vertical(input_handler.direction_stack[1])
    /\ is_vertical(input_handler.direction_stack[2])
    /\ Effective = input_handler.direction_stack[3]

(* C8: from the initial state, pressing a direction, its opposite and then *)
(* a direction of the other axis gives that last direction; pressing two   *)
(* directions of different axes gives the second, and releasing the second *)
(* gives the first again. In general, after a well-formed event stream the *)
(* effective direction is the most recently pressed held direction whose   *)
(* opposite is not held.                                                   *)
C8_LastPressedUncancelledWins ==
    /\ \A a, c \in Direction :
        is_horizontal(a) # is_horizontal(c) =>
            /\ history = <<Press(a), Press(Opposite(a)), Press(c)>>
                => Effective = c
            /\ history = <<Press(a), Press(c)>> => Effective = c
            /\ history = <<Press(a), Press(c), Release(c)>> => Effective = a
    /\ WellFormed(history) =>
        Effective =
            FirstSuch(input_handler.direction_stack,
                      LAMBDA e : Opposite(e) \notin Range(input_handler.direction_stack))

C8_Witness ==
    /\ history = <<Press("Left"), Press("Right"), Press("Up")>>
    /\ input_handler.horizontal_balance = 0
    /\ Effective = "Up"

(* C9: after any sequence of events horizontal_balance is the net count of *)
(* Right minus the net count of Left, and vertical_balance the net count   *)
(* of Down minus the net count of Up. (Events on one axis leave the other  *)
(* axis's counts, hence its balance, as they were.)                        *)
C9_BalancesAreNetCounts ==
    /\ input_handler.horizontal_balance = Net("Right") - Net("Left")
    /\ input_handler.vertical_balance = Net("Down") - Net("Up")

C9_Witness ==
    /\ Count(Press("Left")) = 1 /\ Count(Release("Left")) = 0
    /\ Count(Press("Right")) = 1 /\ Count(Release("Right")) = 0
    /\ Net("Down") = -1
    /\ input_handler.horizontal_balance = 0
    /\ input_handler.vertical_balance = -1

\* The first frame of a game built with four frame lists of length 2, its batch
\* the single event press(Right).
C10_Scenario ==
    /\ frame = 0
    /\ batch = <<[key |-> "Right", pressed |-> TRUE]>>
    /\ \A d \in Direction : Len(frames_of(animations[PlayerEntity], d)) = 2

(* C10: in the first frame of a game whose player (KeyboardControlled, at  *)
(* (0,0), speed 0, current_frame 0) has four frame lists of length 2, when *)
(* the frame's batch is the single event press(Right): after Keyboard the  *)
(* velocity is (PLAYER_MOVEMENT_SPEED, Right), after Physics the position  *)
(* is (PLAYER_MOVEMENT_SPEED, 0), after Animator current_frame is 1 and    *)
(* the sprite is right_frames[1], and the render of that same frame draws  *)
(* the player from the region of right_frames[1], centred on its new       *)
(* position.                                                               *)
C10_EndToEndFrame ==
    C10_Scenario =>
        LET second == animations[PlayerEntity].right_frames[2]
        IN  /\ pc \in {"physics", "animator", "render", "sleep"} =>
                velocities[PlayerEntity] =
                    [speed |-> PLAYER_MOVEMENT_SPEED, direction |-> "Right"]
            /\ pc \in {"animator", "render", "sleep"} =>
                positions[PlayerEntity] = <<PLAYER_MOVEMENT_SPEED, 0>>
            /\ pc \in {"render", "sleep"} =>
                /\ animations[PlayerEntity].current_frame = 1
                /\ sprites[PlayerEntity] = second
            /\ pc = "sleep" =>
                /\ Len(draws) = 2
                /\ draws[1].texture = second.spritesheet
                /\ draws[1].src = second.region
                /\ draws[1].dst.x + (draws[1].dst.w \div 2)
                        = (WINDOW_WIDTH \div 2) + PLAYER_MOVEMENT_SPEED
                /\ draws[1].dst.y + (draws[1].dst.h \div 2) = WINDOW_HEIGHT \div 2

C10_Witness ==
    /\ C10_Scenario
    /\ pc = "sleep"
    /\ positions[PlayerEntity] = <<20, 0>>
    /\ animations[PlayerEntity].current_frame = 1
    /\ draws[1].src = [x |-> 26, y |-> 72, w |-> 26, h |-> 36]

---------------------------------------------------------------------------
(* Vocabulary of the properties of the systems.                            *)

KeyboardRuns == pc = "keyboard" /\ pc' = "physics"
PhysicsRuns == pc = "physics" /\ pc' = "animator"
AnimatorRuns == pc = "animator" /\ pc' = "render"
RenderRuns == pc = "render" /\ pc' = "sleep"

\* The unit offset of a direction, as the documentation gives it.
UnitOffset(d) ==
    CASE d = "Left"  -> <<-1, 0>>
      [] d = "Right" -> <<1, 0>>
      [] d = "Up"    -> <<0, -1>>
      [] d = "Down"  -> <<0, 1>>

\* The frame list of an animation that belongs to a direction.
ListOf(animation, d) ==
    CASE d = "Left"  -> animation.left_frames
      [] d = "Right" -> animation.right_frames
      [] d = "Up"    -> animation.up_frames
      [] d = "Down"  -> animation.down_frames

\* Rect::center()
CenterOf(r) == <<r.x + (r.w \div 2), r.y + (r.h \div 2)>>

\* The entities a system joins over.
Movers == DOMAIN positions \cap DOMAIN velocities
Animated == DOMAIN animations \cap DOMAIN sprites \cap DOMAIN velocities
Drawable == DOMAIN positions \cap DOMAIN sprites

(* C11: a Keyboard step with Move(D) gives every entity that has the       *)
(* KeyboardControlled tag and a Velocity speed 20 and direction D; with    *)
(* Stop it gives every such entity speed 0 and leaves its direction; with  *)
(* no command it changes no velocity.                                      *)
C11_KeyboardEffect ==
    [][ KeyboardRuns =>
        /\ DOMAIN velocities' = DOMAIN velocities
        /\ \A e \in DOMAIN velocities \cap keyboard_controlled :
            /\ movement_command.kind = "Move" =>
                velocities'[e] = [speed |-> 20, direction |-> movement_command.direction]
            /\ movement_command.kind = "Stop" =>
                /\ velocities'[e].speed = 0
                /\ velocities'[e].direction = velocities[e].direction
        /\ movement_command.kind = "None" => velocities' = velocities
      ]_vars

C11_Witness ==
    /\ pc = "physics"
    /\ movement_command = Move("Up")
    /\ 1 \in keyboard_controlled
    /\ 1 \in DOMAIN velocities
    /\ velocities[1] = [speed |-> 20, direction |-> "Up"]

(* C12: a Keyboard step, whatever the command, leaves the Velocity of      *)
(* every entity without the KeyboardControlled tag as it was, and changes  *)
(* no Position, Sprite or MovementAnimation.                               *)
C12_KeyboardFrame ==
    [][ KeyboardRuns =>
        /\ \A e \in DOMAIN velocities \ keyboard_controlled :
            velocities'[e] = velocities[e]
        /\ positions' = positions
        /\ sprites' = sprites
        /\ animations' = animations
      ]_vars

C12_Witness ==
    /\ pc = "physics"
    /\ movement_command = Move("Left")
    /\ 1 \in keyboard_controlled /\ 1 \in DOMAIN velocities
    /\ velocities[1].direction = "Left"
    /\ 2 \in DOMAIN velocities \ keyboard_controlled
    /\ velocities[2] = [speed |-> 5, direction |-> "Down"]

\* The effective direction as the documentation defines it: the first entry of
\* the stack whose axis balance is not zero.
FirstUncancelled(h) ==
    FirstSuch(h.direction_stack, LAMBDA e : AxisBalance(h, e) # 0)

C14_PhysicsStep ==
    [][ /\ PhysicsRuns =>
            /\ DOMAIN positions' = DOMAIN positions
            /\ velocities' = velocities
            /\ \A e \in DOMAIN positions :
                IF e \in DOMAIN velocities /\ velocities[e].speed > 0
                THEN /\ positions'[e][1] = positions[e][1]
                            + UnitOffset(velocities[e].direction)[1] * velocities[e].speed
                     /\ positions'[e][2] = positions[e][2]
                            + UnitOffset(velocities[e].direction)[2] * velocities[e].speed
                     /\ (positions[e] = <<10, 10>> /\ velocities[e] = [speed |-> 5, direction |-> "Right"])
                            => positions'[e] = <<15, 10>>
                ELSE positions'[e] = positions[e]
        /\ ~PhysicsRuns => positions' = positions
      ]_vars

C14_Witness ==
    /\ pc = "animator"
    /\ \E e \in DOMAIN positions \cap DOMAIN velocities :
        /\ positions[e] = <<15, 10>>
        /\ velocities[e] = [speed |-> 5, direction |-> "Right"]
    /\ \E e \in DOMAIN positions \cap DOMAIN velocities :
        /\ positions[e] = <<100, -45>>
        /\ velocities[e] = [speed |-> 5, direction |-> "Down"]

(* C15: an Animator step gives every entity that has a Velocity, a Sprite  *)
(* and a MovementAnimation and speed > 0 the frame index (current_frame +  *)
(* 1) mod len(list), where list is the frame list of its direction, and    *)
(* makes its Sprite equal to the entry of list at the new index; with a    *)
(* list of 4 entries index 3 becomes 0. No other step changes a frame      *)
(* index, so the index advances once in a pass.                            *)
C15_AnimatorAdvance ==
    [][ /\ AnimatorRuns =>
            \A e \in Animated :
                velocities[e].speed > 0 =>
                    LET list == ListOf(animations[e], velocities[e].direction)
                        new == (animations[e].current_frame + 1) % Len(list)
                    IN  /\ animations'[e].current_frame = new
                        /\ sprites'[e] = list[new + 1]
                        /\ (Len(list) = 4 /\ animations[e].current_frame = 3) =>
                                animations'[e].current_frame = 0
        /\ ~AnimatorRuns => animations' = animations
      ]_vars

C15_Witness ==
    /\ pc = "render"
    /\ \E e \in Animated :
        /\ velocities[e] = [speed |-> 5, direction |-> "Down"]
        /\ Len(animations[e].down_frames) = 4
        /\ animations[e].current_frame = 0
        /\ sprites[e] = animations[e].down_frames[1]
        /\ sprites[e] # StaticSprite

(* C16: a step of any system leaves the frame index and the Sprite of an   *)
(* entity whose speed is 0 before and after the step as they were, so an   *)
(* idle entity keeps both over any number of Animator steps and frames.    *)
C16_IdleHold ==
    [][ \A e \in DOMAIN velocities :
            (velocities[e].speed = 0 /\ velocities'[e].speed = 0) =>
                /\ e \in DOMAIN animations =>
                        animations'[e].current_frame = animations[e].current_frame
                /\ e \in DOMAIN sprites => sprites'[e] = sprites[e]
      ]_vars

C16_Witness ==
    /\ pc = "render"
    /\ \E e \in Animated :
        /\ velocities[e].speed = 0
        /\ animations[e].current_frame = 3

\* The stored frame index of an entity is an index of the list its direction
\* selects.
IndexInRange(e) ==
    animations[e].current_frame < Len(ListOf(animations[e], velocities[e].direction))

\* C17 as stated: the stored index is in range at every point of every frame.
C17_IndexAlwaysInRange ==
    \A e \in Animated : IndexInRange(e)

(* C17: with four non-empty frame lists, for an entity that has a          *)
(* Velocity, a Sprite and a MovementAnimation the stored frame index is in *)
(* range of the list of the current direction at the end of every Animator *)
(* step in which the entity moves, the Sprite that step stores is an entry *)
(* of that list, and no step other than a Keyboard step takes an index out *)
(* of range; between a Keyboard step that changes the direction to a       *)
(* shorter list and the following Animator step the stored index may be    *)
(* out of range of the newly selected list.                                *)
C17_IndexInRangeAfterAnimator ==
    [][ /\ AnimatorRuns =>
            \A e \in Animated :
                velocities[e].speed > 0 =>
                    /\ IndexInRange(e)'
                    /\ sprites'[e] \in Range(ListOf(animations[e], velocities[e].direction))
        /\ ~KeyboardRuns =>
            \A e \in Animated :
                IndexInRange(e) => /\ e \in DOMAIN animations' \cap DOMAIN velocities'
                                   /\ IndexInRange(e)'
      ]_vars

C17_Witness ==
    /\ pc = "render"
    /\ frame = 1
    /\ batch = << [key |-> "Down", pressed |-> FALSE], [key |-> "Up", pressed |-> TRUE] >>
    /\ velocities[PlayerEntity] = [speed |-> PLAYER_MOVEMENT_SPEED, direction |-> "Up"]
    /\ Len(animations[PlayerEntity].up_frames) = 1
    /\ Len(animations[PlayerEntity].down_frames) = 4
    /\ animations[PlayerEntity].current_frame = 0
    /\ sprites[PlayerEntity] = animations[PlayerEntity].up_frames[1]

(* C18: entity creation accepts no MovementAnimation with an empty frame   *)
(* list, so the loop never reaches the panic of a modulo by zero: whenever *)
(* the Animator step is about to run, the list selected by the direction   *)
(* of every moving entity it joins over has at least one entry.            *)
C18_NoModuloByZero ==
    /\ pc # "panicked"
    /\ pc = "animator" =>
        \A e \in Animated :
            velocities[e].speed > 0 =>
                Len(ListOf(animations[e], velocities[e].direction)) > 0

C18_Witness ==
    /\ pc = "animator"
    /\ PlayerEntity \in Animated
    /\ velocities[PlayerEntity] = [speed |-> PLAYER_MOVEMENT_SPEED, direction |-> "Up"]
    /\ Len(animations[PlayerEntity].up_frames) = 1

\* A draw command is the one the documentation gives for entity e: the region
\* of the Sprite, from its spritesheet, to a rectangle of the region's size
\* centred at the position moved by half of the 800 x 600 viewport.
DrawFor(d, e) ==
    /\ d.texture = sprites[e].spritesheet
    /\ d.src = sprites[e].region
    /\ d.dst.w = sprites[e].region.w
    /\ d.dst.h = sprites[e].region.h
    /\ CenterOf(d.dst) = <<positions[e][1] + (800 \div 2), positions[e][2] + (600 \div 2)>>

(* C19: after a render, every entity that has a Position and a Sprite has  *)
(* a draw command that copies the Sprite's region of the Sprite's          *)
(* spritesheet to a rectangle of the same width and height centred at      *)
(* position + (viewport width / 2, viewport height / 2); for position      *)
(* (0,0) in the 800 x 600 viewport the centre is (400, 300).               *)
C19_RenderDestination ==
    pc = "sleep" =>
        \A e \in Drawable :
            \E i \in DOMAIN draws :
                /\ DrawFor(draws[i], e)
                /\ positions[e] = <<0, 0>> => CenterOf(draws[i].dst) = <<400, 300>>

C19_Witness ==
    /\ pc = "sleep"
    /\ \E e \in Drawable :
        /\ positions[e] = <<0, 0>>
        /\ \E i \in DOMAIN draws :
            /\ draws[i].src = sprites[e].region
            /\ CenterOf(draws[i].dst) = <<400, 300>>
    /\ \E e \in Drawable :
        /\ positions[e] = <<100, -45>>
        /\ \E i \in DOMAIN draws : CenterOf(draws[i].dst) = <<500, 255>>

(* C20: a render emits one draw command for each entity that has a        *)
(* Position and a Sprite and no other, so none for an entity that misses   *)
(* one of the two, and it leaves the Position, Velocity, Sprite and        *)
(* MovementAnimation stores as they were.                                  *)
C20_RenderOnePerEntity ==
    [][ RenderRuns =>
            /\ Len(draws') = Cardinality(Drawable)
            /\ \E f \in [DOMAIN draws' -> Drawable] :
                /\ \A i, j \in DOMAIN draws' : f[i] = f[j] => i = j
                /\ \A i \in DOMAIN draws' : DrawFor(draws'[i], f[i])
            /\ positions' = positions
            /\ velocities' = velocities
            /\ sprites' = sprites
            /\ animations' = animations
      ]_vars

C20_Witness ==
    /\ pc = "sleep"
    /\ 1 \in DOMAIN sprites \ DOMAIN positions
    /\ 2 \in Drawable
    /\ Len(draws) = 1
    /\ DrawFor(draws[1], 2)

(* C21: no failure that concerns one entity aborts the frame loop: render  *)
(* never panics, and a render in which the copy of one entity fails still  *)
(* draws every other entity that has a Position and a Sprite, so at most   *)
(* the one draw of the affected entity is missing.                         *)
C21_FailureSkipsOnlyTheEntity ==
    /\ pc # "panicked"
    /\ pc = "render_failed" => Len(draws) >= Cardinality(Drawable) - 1

(* C22: only the Keyboard step changes a Velocity, so the velocity the     *)
(* Animator step reads is the one the Physics step of the same pass used:  *)
(* a Physics step moves an entity along the direction of its velocity, and *)
(* the Animator step that follows takes the Sprite of a moving entity from *)
(* the frame list of that same direction.                                  *)
C22_SameVelocity ==
    [][ /\ ~KeyboardRuns => velocities' = velocities
        /\ PhysicsRuns =>
            \A e \in Movers :
                positions'[e] # positions[e] =>
                    \E n \in 1..PLAYER_MOVEMENT_SPEED :
                        /\ positions'[e][1] = positions[e][1]
                                + n * UnitOffset(velocities'[e].direction)[1]
                        /\ positions'[e][2] = positions[e][2]
                                + n * UnitOffset(velocities'[e].direction)[2]
        /\ AnimatorRuns =>
            \A e \in Animated :
                velocities[e].speed > 0 =>
                    sprites'[e] \in Range(ListOf(animations[e], velocities[e].direction))
      ]_vars

C22_Witness ==
    /\ pc = "render"
    /\ 1 \in Movers \cap Animated
    /\ velocities[1] = [speed |-> PLAYER_MOVEMENT_SPEED, direction |-> "Left"]
    /\ positions[1] = <<-10, 10>>
    /\ sprites[1] \in Range(animations[1].left_frames)

(* C23: no component store is written by two systems: a Keyboard step      *)
(* changes only velocities, a Physics step only positions, an Animator     *)
(* step only animations and sprites, and a render changes no store.        *)
C23_DisjointWrites ==
    [][ /\ KeyboardRuns => /\ positions' = positions
                           /\ sprites' = sprites
                           /\ animations' = animations
        /\ PhysicsRuns => /\ velocities' = velocities
                          /\ sprites' = sprites
                          /\ animations' = animations
        /\ AnimatorRuns => /\ positions' = positions
                           /\ velocities' = velocities
        /\ pc = "render" => UNCHANGED storeVars
        /\ keyboard_controlled' = keyboard_controlled
      ]_vars

C23_Witness ==
    /\ pc = "sleep"
    /\ 1 \in Movers \cap Animated \cap keyboard_controlled
    /\ movement_command = Move("Down")
    /\ velocities[1] = [speed |-> PLAYER_MOVEMENT_SPEED, direction |-> "Down"]
    /\ positions[1] = <<0, 20>>
    /\ sprites[1] \in Range(animations[1].down_frames)
    /\ Len(draws) = 2

(* C24: the draw commands of a frame use what the earlier systems of the   *)
(* same frame wrote: when the render of a frame is over, every entity that *)
(* has a Position and a Sprite is drawn at its position after the frame's  *)
(* Physics step and from its Sprite after the frame's Animator step; for a *)
(* moving player that Sprite is the entry at current_frame of the list of  *)
(* its direction, and in the first frame its position is one step away     *)
(* from the origin it was created at.                                      *)
C24_DrawsUseThisFrame ==
    pc = "sleep" =>
        /\ \A e \in Drawable : \E i \in DOMAIN draws : DrawFor(draws[i], e)
        /\ velocities[PlayerEntity].speed > 0 =>
            LET v == velocities[PlayerEntity]
                a == animations[PlayerEntity]
            IN  /\ sprites[PlayerEntity] = ListOf(a, v.direction)[a.current_frame + 1]
                /\ draws[1].src = ListOf(a, v.direction)[a.current_frame + 1].region
                /\ frame = 0 =>
                    /\ positions[PlayerEntity] =
                            <<UnitOffset(v.direction)[1] * v.speed,
                              UnitOffset(v.direction)[2] * v.speed>>
                    /\ CenterOf(draws[1].dst) =
                            <<400 + UnitOffset(v.direction)[1] * v.speed,
                              300 + UnitOffset(v.direction)[2] * v.speed>>

C24_Witness ==
    /\ pc = "sleep"
    /\ frame = 1
    /\ batch = << [key |-> "Right", pressed |-> FALSE], [key |-> "Up", pressed |-> TRUE] >>
    /\ positions[PlayerEntity] = <<20, -20>>
    /\ animations[PlayerEntity].current_frame = 0
    /\ Len(animations[PlayerEntity].up_frames) = 2
    /\ CenterOf(draws[1].dst) = <<420, 280>>
    /\ draws[1].src = animations[PlayerEntity].up_frames[1].region

\* The batch is closed and its command stored for the systems.
BatchCloses == pc = "events" /\ pc' = "keyboard"

KeyDown(d) == [key |-> d, pressed |-> TRUE]
KeyUp(d) == [key |-> d, pressed |-> FALSE]

(* C25: the key events of a batch are folded into the handler one after    *)
(* the other, in the order of delivery, before Keyboard runs, and the      *)
(* systems act on the handler as the last event left it: the handler       *)
(* changes only while events are polled, the command follows from the      *)
(* first uncancelled entry of the stack at the end of the batch, a first   *)
(* batch of press(a), press(c) on two axes moves towards c, the later of   *)
(* the two, and a first batch of press(a), release(a) stops; and a batch   *)
(* of press(d), release(d) with nothing else held changes no position in   *)
(* its frame.                                                              *)
C25_BatchFoldedInOrder ==
    [][ /\ pc # "events" => input_handler' = input_handler
        /\ ~PhysicsRuns => positions' = positions
        /\ BatchCloses =>
            /\ FirstUncancelled(input_handler) # None =>
                    movement_command' = Move(FirstUncancelled(input_handler))
            /\ \A a, c \in Direction :
                /\ (frame = 0 /\ batch = <<KeyDown(a), KeyDown(c)>>
                        /\ is_horizontal(a) # is_horizontal(c)) =>
                        movement_command' = Move(c)
                /\ (frame = 0 /\ batch = <<KeyDown(a), KeyUp(a)>>) =>
                        movement_command' = Stop
        /\ PhysicsRuns =>
            \A d \in Direction :
                ( /\ batch = <<KeyDown(d), KeyUp(d)>>
                  /\ input_handler.direction_stack = <<>> )
                => positions' = positions
      ]_vars

C25_Witness ==
    /\ pc = "animator"
    /\ frame = 0
    /\ batch = <<KeyDown("Up"), KeyUp("Up")>>
    /\ input_handler.direction_stack = <<>>
    /\ movement_command = Stop
    /\ positions[PlayerEntity] = <<0, 0>>

\* An event was delivered in this step; `event` holds it afterwards.
Delivered == polled' = polled + 1

(* C26: a key event whose key is not one of the four direction keys        *)
(* changes nothing: the stack, both balances, the effective direction, the *)
(* events the frame's command is derived from, the command, and every      *)
(* velocity and position are as before the event.                          *)
C26_UnrecognizedKeyIgnored ==
    [][ (Delivered /\ event'.key \notin Direction) =>
            /\ input_handler'.direction_stack = input_handler.direction_stack
            /\ input_handler'.horizontal_balance = input_handler.horizontal_balance
            /\ input_handler'.vertical_balance = input_handler.vertical_balance
            /\ FirstUncancelled(input_handler') = FirstUncancelled(input_handler)
            /\ batch' = batch
            /\ movement_command' = movement_command
            /\ velocities' = velocities
            /\ positions' = positions
      ]_vars

C26_Witness ==
    /\ pc = "events"
    /\ event = [key |-> OtherKey, pressed |-> FALSE, repeat |-> FALSE]
    /\ batch = <<KeyDown("Left")>>
    /\ input_handler.direction_stack = <<"Left">>
    /\ input_handler.horizontal_balance = -1

(* C27: no step changes one of the four frame lists of a                  *)
(* MovementAnimation: of an animation only current_frame changes (and,     *)
(* with it, the entity's Sprite).                                          *)
C27_FrameListsImmutable ==
    [][ \A e \in DOMAIN animations :
            /\ e \in DOMAIN animations'
            /\ \A d \in Direction :
                    ListOf(animations'[e], d) = ListOf(animations[e], d)
            /\ animations'[e] =
                    [animations[e] EXCEPT !.current_frame = animations'[e].current_frame]
      ]_vars

C27_Witness ==
    /\ pc = "render"
    /\ 2 \in Animated
    /\ velocities[2] = [speed |-> 5, direction |-> "Down"]
    /\ animations[2].current_frame = 0
    /\ animations[2].down_frames = character_animation_frames("Down", 4)
    /\ sprites[2] = animations[2].down_frames[1]

(* C28: no step creates or destroys an entity or attaches or detaches a    *)
(* component: the entities that have a Position, a Velocity, a Sprite, a   *)
(* MovementAnimation or the KeyboardControlled tag are the same after      *)
(* every step as before it, hence as at the end of setup.                  *)
C28_ComponentSetsFixed ==
    [][ /\ DOMAIN positions' = DOMAIN positions
        /\ DOMAIN velocities' = DOMAIN velocities
        /\ DOMAIN sprites' = DOMAIN sprites
        /\ DOMAIN animations' = DOMAIN animations
        /\ keyboard_controlled' = keyboard_controlled
      ]_vars

C28_Witness ==
    /\ pc = "sleep"
    /\ movement_command = Move("Left")
    /\ 1 \in keyboard_controlled \ DOMAIN velocities
    /\ DOMAIN positions = {1, 2}
    /\ DOMAIN velocities = {2}
    /\ Len(draws) = 2

(* C29: a key event flagged as a repeat never reaches the handler: a       *)
(* repeated key-down or key-up changes neither the stack nor a balance and *)
(* is no transition of the frame; an event of a direction key that is not  *)
(* a repeat is processed: a press puts the key at the front of the stack   *)
(* and a release takes it out.                                             *)
C29_RepeatsFiltered ==
    [][ /\ (Delivered /\ event'.repeat) =>
            /\ input_handler' = input_handler
            /\ batch' = batch
        /\ (Delivered /\ ~event'.repeat /\ event'.key \in Direction) =>
            /\ batch' = Append(batch, [key |-> event'.key, pressed |-> event'.pressed])
            /\ event'.pressed => Head(input_handler'.direction_stack) = event'.key
            /\ ~event'.pressed => event'.key \notin Range(input_handler'.direction_stack)
      ]_vars

C29_Witness ==
    /\ pc = "events"
    /\ event = [key |-> "Left", pressed |-> TRUE, repeat |-> TRUE]
    /\ batch = <<KeyDown("Left")>>
    /\ input_handler.direction_stack = <<"Left">>
    /\ input_handler.horizontal_balance = -1

\* The directions held after the calls of history.
Held == {d \in Direction : HeldBefore(history, Len(history) + 1, d)}

\* 1 when d is held, else 0.
IsHeld(d) == IF d \in Held THEN 1 ELSE 0

(* C30: after a well-formed event stream (a direction is pressed only when *)
(* not held and released only when held) direction_stack holds exactly the *)
(* held directions, each once, horizontal_balance is [Right held] - [Left  *)
(* held] and vertical_balance is [Down held] - [Up held], both within -1,  *)
(* 0 and 1, and get_effective_direction() is None iff the opposite of      *)
(* every held direction is held as well.                                   *)
C30_WellFormedStreams ==
    WellFormed(history) =>
        LET s == input_handler.direction_stack
        IN  /\ Range(s) = Held
            /\ Len(s) = Cardinality(Held)
            /\ input_handler.horizontal_balance = IsHeld("Right") - IsHeld("Left")
            /\ input_handler.vertical_balance = IsHeld("Down") - IsHeld("Up")
            /\ input_handler.horizontal_balance \in {-1, 0, 1}
            /\ input_handler.vertical_balance \in {-1, 0, 1}
            /\ Effective = None <=> \A d \in Held : Opposite(d) \in Held

C30_Witness ==
    /\ WellFormed(history)
    /\ Len(history) = 4
    /\ Count(Release("Up")) = 1
    /\ Held = {"Left", "Right"}
    /\ input_handler.direction_stack = <<"Right", "Left">>
    /\ input_handler.horizontal_balance = 0
    /\ Effective = None

(* C31: after any sequence of events, duplicate presses and unmatched or   *)
(* duplicate releases included, whenever direction_stack holds exactly one *)
(* direction d (so its opposite is not held) get_effective_direction()     *)
(* returns Some(d).                                                        *)
C31_LoneHeldKeyWins ==
    Len(input_handler.direction_stack) = 1 =>
        Effective = input_handler.direction_stack[1]

(* C32: in every reachable state, for a direction d that is not in the     *)
(* stack, press_key(d) followed at once by release_key(d) gives back the   *)
(* same InputHandler: the same stack in the same order and the same two    *)
(* balances; and after a well-formed event stream that has released every  *)
(* key it pressed the handler is the initial one.                          *)
C32_PressReleaseRoundTrip ==
    /\ \A d \in Direction \ Range(input_handler.direction_stack) :
        LET back == release_key(press_key(input_handler, d), d)
        IN  /\ back.direction_stack = input_handler.direction_stack
            /\ back.horizontal_balance = input_handler.horizontal_balance
            /\ back.vertical_balance = input_handler.vertical_balance
    /\ (WellFormed(history) /\ Held = {}) => input_handler = InputHandler_new

C32_Witness ==
    /\ history = <<Press("Left"), Press("Up"), Press("Right"), Release("Right")>>
    /\ input_handler.direction_stack = <<"Up", "Left">>
    /\ input_handler.horizontal_balance = -1
    /\ input_handler.vertical_balance = -1
    /\ input_handler = release_key(press_key(input_handler, "Right"), "Right")

\* The stores as they are now.
Now == World(positions, velocities, sprites, animations)

(* C33: Physics and Animator commute: from any state the Keyboard step     *)
(* leaves, Physics followed by Animator gives the same positions,          *)
(* velocities, sprites and animations as Animator followed by Physics,     *)
(* which are the positions of Physics alone and the animations and sprites *)
(* of Animator alone.                                                      *)
C33_PhysicsAnimatorCommute ==
    pc = "physics" =>
        LET pa == Animator_step(Physics_step(Now))
            ap == Physics_step(Animator_step(Now))
        IN  /\ pa.positions = ap.positions
            /\ pa.velocities = ap.velocities
            /\ pa.sprites = ap.sprites
            /\ pa.animations = ap.animations
            /\ ap.positions = Physics_step(Now).positions
            /\ pa.sprites = Animator_step(Now).sprites
            /\ pa.animations = Animator_step(Now).animations
            /\ pa.velocities = velocities

C33_Witness ==
    /\ pc = "physics"
    /\ 1 \in Movers \cap Animated
    /\ velocities[1] = [speed |-> PLAYER_MOVEMENT_SPEED, direction |-> "Right"]
    /\ Physics_step(Now).positions[1] # positions[1]
    /\ Animator_step(Now).sprites[1] # sprites[1]
    /\ Animator_step(Now).animations[1].current_frame # animations[1].current_frame
    /\ Animator_step(Physics_step(Now)) = Physics_step(Animator_step(Now))

\* Physics would translate the position of e in this pass.
PhysicsMoves(e) == Physics_step(Now).positions[e] # positions[e]

\* Animator would advance the frame of e or rewrite its Sprite in this pass.
AnimatorAdvances(e) ==
    \/ Animator_step(Now).animations[e].current_frame # animations[e].current_frame
    \/ Animator_step(Now).sprites[e] # sprites[e]

(* C34: Physics and Animator agree on which entities move, for every       *)
(* speed, negative ones included: an entity with a Position, a Velocity, a *)
(* Sprite and a MovementAnimation has its frame advanced by Animator in a  *)
(* pass iff Physics translates its position in that pass (stated for the   *)
(* entities whose selected frame list has at least two entries, where an   *)
(* advance always shows).                                                  *)
C34_SameNotionOfMoving ==
    pc = "physics" =>
        \A e \in Movers \cap Animated :
            Len(ListOf(animations[e], velocities[e].direction)) >= 2 =>
                (AnimatorAdvances(e) <=> PhysicsMoves(e))

\* The systems that move the player have run in this iteration, or the next
\* iteration has not closed its events yet.
FrameMoved == pc \notin {"keyboard", "physics"}

(* C35: The single-struct game and the ECS pipeline are equivalent on      *)
(* movement: on the same key events in the same frames, from position      *)
(* (0,0) and speed 0, after each frame the position and the speed Game::   *)
(* update leaves in the player are those the command, Keyboard and Physics *)
(* leave in the KeyboardControlled entity; the speed agrees as soon as     *)
(* Keyboard has run.                                                       *)
C35_GameMatchesPipeline ==
    /\ FrameMoved =>
        /\ player.position = positions[PlayerEntity]
        /\ player.speed = velocities[PlayerEntity].speed
    /\ pc = "physics" => player.speed = velocities[PlayerEntity].speed

C35_Witness ==
    /\ frame = 2
    /\ pc = "animator"
    /\ batch = <<>>
    /\ movement_command = NoCommand
    /\ get_effective_direction(input_handler) = None
    /\ player.position = <<-20, 0>>
    /\ positions[PlayerEntity] = <<-20, 0>>
    /\ player.speed = 0
    /\ velocities[PlayerEntity].speed = 0

\* The ball touches a wall on the x axis, on the y axis.
OnWallX(b) == b.x = 0 \/ b.x = BALL_WINDOW_WIDTH - BALL_SIZE
OnWallY(b) == b.y = 0 \/ b.y = BALL_WINDOW_HEIGHT - BALL_SIZE

\* The velocity of a ball on a wall points back into the window.
PointsInward(b) ==
    /\ b.x = 0 => b.vel_x > 0
    /\ b.x = BALL_WINDOW_WIDTH - BALL_SIZE => b.vel_x < 0
    /\ b.y = 0 => b.vel_y > 0
    /\ b.y = BALL_WINDOW_HEIGHT - BALL_SIZE => b.vel_y < 0

BallUpdates == ball' # ball

(* C36: After every Ball::update the ball is inside the window (0 <= x <=  *)
(* 780, 0 <= y <= 580), both components of its velocity have the magnitude *)
(* BALL_SPEED, its velocity on the axis of a wall it touches points back   *)
(* into the window, and a ball that was on a wall before the update is off *)
(* that wall after it.                                                     *)
C36_BallStaysInAndBounces ==
    [][BallUpdates =>
        /\ ball'.x >= 0 /\ ball'.x <= BALL_WINDOW_WIDTH - BALL_SIZE
        /\ ball'.x <= 780
        /\ ball'.y >= 0 /\ ball'.y <= BALL_WINDOW_HEIGHT - BALL_SIZE
        /\ ball'.y <= 580
        /\ ball'.vel_x \in {BALL_SPEED, -BALL_SPEED}
        /\ ball'.vel_y \in {BALL_SPEED, -BALL_SPEED}
        /\ PointsInward(ball')
        /\ OnWallX(ball) => ~OnWallX(ball')
        /\ OnWallY(ball) => ~OnWallY(ball')]_vars

C36_Witness ==
    /\ ball.x = BALL_WINDOW_WIDTH - BALL_SIZE
    /\ ball.y = 0
    /\ ball.vel_x = -BALL_SPEED
    /\ ball.vel_y = BALL_SPEED

(* C37: The id insert returns identifies the user inserted: find_by_id of  *)
(* that id right after the insert returns that user, and the id is below   *)
(* next_id, so that no later insert returns it again.                      *)
C37_InsertedIdFindsUser ==
    inserted # NoInsert =>
        /\ find_by_id(repo, inserted.id) = inserted.user
        /\ inserted.id < repo.next_id

=============================================================================
